---------------------------- MODULE Spec2Model ----------------------------
(***************************************************************************)
(* HeatMapGenerator of wifi_survey_heatmap/heatmap.py as a state machine.  *)
(*                                                                         *)
(* State: the object's fields after __init__ (layout, image_width,         *)
(* image_height, data, ignore_ssids), the locals of generate() (the table  *)
(* a, the grid num_x, num_y, gx, gy), the locals of _plot_channels         *)
(* (channels, and what it printed), the locals of _plot (z, the pyplot     *)
(* figure), the files savefig has written, the position pc in generate()   *)
(* and the exception err that ended the run ("none" while it runs).        *)
(*                                                                         *)
(* Numbers: metric values, coordinates and qualities are integers; a       *)
(* quotient Python computes with true division (a mean, a frequency in     *)
(* MHz, a linspace coordinate, a normalised intensity) is the exact        *)
(* rational <<numerator, denominator>> in lowest terms.                    *)
(***************************************************************************)
EXTENDS Integers, Sequences, FiniteSets, TLC

VARIABLES layout, image_width, image_height, data, ignore_ssids,
          a, i, pc, err, channels, stdout,
          num_x, num_y, gx, gy, key_idx, z, figure, files

vars == <<layout, image_width, image_height, data, ignore_ssids,
          a, i, pc, err, channels, stdout,
          num_x, num_y, gx, gy, key_idx, z, figure, files>>

---------------------------------------------------------------------------
(* Bounds of the model. *)

\* most measurement records in a dataset
MaxPoints == 2
\* metric values are 1..MaxVal
MaxVal == 2
\* most scan observations in a dataset (over all its records)
MaxScans == 2
\* most pixel rows of a background image
MaxRows == 9

---------------------------------------------------------------------------
(* Arithmetic helpers. *)

Range(s) == {s[j] : j \in DOMAIN s}

SeqMin(s) == CHOOSE m \in Range(s) : \A e \in Range(s) : m <= e

SeqMax(s) == CHOOSE m \in Range(s) : \A e \in Range(s) : m >= e

RECURSIVE SeqSum(_)
SeqSum(s) == IF s = <<>> THEN 0 ELSE Head(s) + SeqSum(Tail(s))

RECURSIVE Gcd(_, _)
Gcd(m, n) == IF n = 0 THEN m ELSE Gcd(n, m % n)

\* the quotient n / d (n >= 0, d > 0) of Python's true division, exactly
Rat(n, d) == LET g == Gcd(n, d) IN <<n \div g, d \div g>>

---------------------------------------------------------------------------
(* The metric catalogue and the record layout. *)

\* the keys of the dict literal of generate(), in its order; the appends of
\* lines 153-160 use the same order
MetricCatalog ==
    <<"rssi", "quality", "tcp_upload_Mbps", "tcp_download_Mbps",
      "udp_Mbps", "jitter">>

Metrics == Range(MetricCatalog)

\* the plot title of each metric
Ptitle ==
    [k \in Metrics |->
        CASE k = "rssi" -> "RSSI (level)"
          [] k = "quality" -> "iwstats Quality"
          [] k = "tcp_upload_Mbps" -> "TCP Upload Mbps"
          [] k = "tcp_download_Mbps" -> "TCP Download Mbps"
          [] k = "udp_Mbps" -> "UDP Upload Mbps"
          [] OTHER -> "UDP Jitter (ms)"]

\* the path of row['result'] each metric is read from
SourceField ==
    [k \in Metrics |->
        CASE k = "rssi" -> "iwconfig.stats.level"
          [] k = "quality" -> "iwconfig.stats.quality"
          [] k = "tcp_upload_Mbps" -> "tcp.sent_Mbps"
          [] k = "tcp_download_Mbps" -> "tcp-reverse.received_Mbps"
          [] k = "udp_Mbps" -> "udp.Mbps"
          [] OTHER -> "udp.jitter_ms"]

SourceFields == {SourceField[k] : k \in Metrics}

\* the survey title (TITLE of the command line)
Title == "survey"

\* the divisor of the image width that gives the grid's column count
GridStep == 4

\* Hz per MHz, the divisor of scan['Frequency']
HzPerMHz == 1000000

---------------------------------------------------------------------------
(* defaultdict(list). *)

EmptyDict == [k \in {} |-> <<>>]

\* d[k].append(v): a missing key is created with an empty list first
DictAppend(d, k, v) ==
    IF k \in DOMAIN d THEN [d EXCEPT ![k] = Append(@, v)]
    ELSE d @@ (k :> <<v>>)

\* d[k] read: the value, [] for a missing key
DictGet(d, k) == IF k \in DOMAIN d THEN d[k] ELSE <<>>

\* d after d[k] was read: a missing key has been inserted
DictTouch(d, k) == IF k \in DOMAIN d THEN d ELSE d @@ (k :> <<>>)

---------------------------------------------------------------------------
(* The inputs: background images and datasets.                             *)

\* imread's array, by its shape: rows = len(layout), cols = len(layout[0])
\* (the pixel values play no part)
ImageOf(r, c) == [rows |-> r, cols |-> c]

\* the images of the runs of generate(): the narrowest with a two-column
\* grid, of 2 * GridStep rows or more
Images == {ImageOf(r, 2 * GridStep) : r \in (2 * GridStep)..MaxRows}

SmallImage == ImageOf(2 * GridStep, 2 * GridStep)

\* the images the grid is computed for: every size up to MaxRows
GridImages == {ImageOf(r, c) : r \in 1..MaxRows, c \in 1..MaxRows}

\* pixel coordinates of the measurement points; (0, 0) is an image corner
Coords == {0, 1}

SSIDs == {"home", "guest"}

\* scan frequencies in Hz: 902 MHz and 902.5 MHz (TLC's integers are 32
\* bits wide, so the 2.4 and 5 GHz bands are out of their range)
Frequencies == {902000000, 902500000}

Qualities == {50, 70}

ScanObservations ==
    {[ESSID |-> s, Frequency |-> f, quality |-> q] :
        s \in SSIDs, f \in Frequencies, q \in Qualities}

\* the metric values of a record: v for the first metric of the catalogue,
\* one more (wrapping at MaxVal) for each metric after it
MetricValue(v, j) == ((v - 1 + j - 1) % MaxVal) + 1

\* row['result'] without the leaves in missing
ResultOf(v, missing) ==
    [f \in SourceFields \ missing |->
        LET j == CHOOSE n \in DOMAIN MetricCatalog :
                     SourceField[MetricCatalog[n]] = f
        IN MetricValue(v, j)]

\* a measurement record: row['x'], row['y'], the metric leaves of
\* row['result'] that are present, and row['result']['iwscan']
RecordOf(x, y, result, iwscan) ==
    [x |-> x, y |-> y, result |-> result, iwscan |-> iwscan]

\* complete records at every coordinate
MetricRecords ==
    {RecordOf(x, y, ResultOf(v, {}), <<>>) :
        x \in Coords, y \in Coords, v \in 1..MaxVal}

\* records that lack at most one metric
MissingRecords ==
    {RecordOf(1, 1, ResultOf(1, m), <<>>) :
        m \in {{}} \cup {{f} : f \in SourceFields}}

SeqsUpTo(S, n) == UNION {[1..m -> S] : m \in 0..n}

MetricDatasets == SeqsUpTo(MetricRecords, MaxPoints)

MissingDatasets == SeqsUpTo(MissingRecords, MaxPoints)

\* the scans of owner p among obs, in order
ScansOf(obs, owner, p) ==
    LET idx == {j \in DOMAIN obs : owner[j] = p}
    IN IF idx = {} THEN <<>>
       ELSE SubSeq(obs, CHOOSE j \in idx : \A h \in idx : j <= h,
                        CHOOSE j \in idx : \A h \in idx : j >= h)

\* the ways to hand t observations to n records, in record order
Handouts(n, t) ==
    {<<obs, owner>> : obs \in [1..t -> ScanObservations],
        owner \in {o \in [1..t -> 1..n] :
            \A j \in 1..t, h \in 1..t : j <= h => o[j] <= o[h]}}

\* datasets of MaxPoints complete records that share out at most MaxScans
\* scan observations among them (a record may get none)
ScanDatasets ==
    {[p \in 1..MaxPoints |->
        RecordOf(p, 1, ResultOf(1, {}), ScansOf(od[1], od[2], p))] :
      od \in UNION {Handouts(MaxPoints, t) : t \in 0..MaxScans}}

\* the runs of the program: a background image, a dataset and the
\* -i/--ignore SSIDs; the image varies where the table a depends on it
Runs ==
    {[image |-> img, data |-> d, ignore |-> {}] :
        img \in Images, d \in MetricDatasets}
    \cup {[image |-> SmallImage, data |-> d, ignore |-> {}] :
            d \in MissingDatasets}
    \cup {[image |-> SmallImage, data |-> d, ignore |-> g] :
            d \in ScanDatasets, g \in SUBSET SSIDs}

Complete(row) == DOMAIN row.result = SourceFields

---------------------------------------------------------------------------
(* generate(), lines 149-170: the table a.                                 *)

\* lines 153-160 with a record's missing metric passed over instead of
\* raising
RECURSIVE AppendMetricsSkipping(_, _, _)
AppendMetricsSkipping(d, row, j) ==
    IF j > Len(MetricCatalog) THEN [a |-> d, err |-> "none"]
    ELSE LET k == MetricCatalog[j]
         IN AppendMetricsSkipping(
                IF SourceField[k] \in DOMAIN row.result
                THEN DictAppend(d, k, row.result[SourceField[k]])
                ELSE d,
                row, j + 1)

\* lines 153-160 from the j-th metric on: the appends up to the first metric
\* the record lacks, where the subscript raises KeyError
RECURSIVE AppendMetrics(_, _, _)
AppendMetrics(d, row, j) ==
    IF j > Len(MetricCatalog) THEN [a |-> d, err |-> "none"]
    ELSE LET k == MetricCatalog[j]
         IN IF SourceField[k] \notin DOMAIN row.result
            THEN [a |-> d, err |-> "KeyError"]
            ELSE AppendMetrics(
                     DictAppend(d, k, row.result[SourceField[k]]), row, j + 1)

\* lines 151-160: one iteration of the loop over self._data
AppendRow(d, row) ==
    AppendMetrics(DictAppend(DictAppend(d, "x", row.x), "y", row.y), row, 1)

\* the corner points of lines 161-164
Corners(w, h) == <<<<0, 0>>, <<0, h>>, <<w, 0>>, <<w, h>>>>

\* lines 165-170: one iteration of the loop over the corners; min() of an
\* empty list raises ValueError
PadAppend(d, c) ==
    LET d1 == DictAppend(DictAppend(d, "x", c[1]), "y", c[2])
        padded == DOMAIN d1 \ {"x", "y"}
    IN IF \E k \in padded : d1[k] = <<>>
       THEN [a |-> d1, err |-> "ValueError"]
       ELSE [a |-> [k \in DOMAIN d1 |->
                      IF k \in padded THEN Append(d1[k], SeqMin(d1[k]))
                      ELSE d1[k]],
             err |-> "none"]

---------------------------------------------------------------------------
(* _plot_channels(), lines 190-202.                                        *)

\* line 194 without the test of the ignored SSIDs
KeptAll(scan, ignore) == TRUE

\* line 194: the scans the loop does not skip
Kept(scan, ignore) == scan.ESSID \notin ignore

\* line 196: scan['Frequency'] / 1000000
FreqKey(f) == Rat(f, HzPerMHz)

\* lines 193-198 for one record, from its j-th scan on
RECURSIVE BucketScans(_, _, _, _)
BucketScans(ch, scans, ignore, j) ==
    IF j > Len(scans) THEN ch
    ELSE BucketScans(
             IF Kept(scans[j], ignore)
             THEN DictAppend(ch, FreqKey(scans[j].Frequency), scans[j].quality)
             ELSE ch,
             scans, ignore, j + 1)

\* lines 192-198 from the n-th record on
RECURSIVE BucketRows(_, _, _, _)
BucketRows(ch, rows, ignore, n) ==
    IF n > Len(rows) THEN ch
    ELSE BucketRows(BucketScans(ch, rows[n].iwscan, ignore, 1),
                    rows, ignore, n + 1)

\* line 200: sum(l) / len(l)
Mean(l) == Rat(SeqSum(l), Len(l))

\* lines 191-200
ChannelMeans(rows, ignore) ==
    LET ch == BucketRows(EmptyDict, rows, ignore, 1)
    IN [f \in DOMAIN ch |-> Mean(ch[f])]

---------------------------------------------------------------------------
(* The run of generate() as the program makes it.                          *)

NoGrid == <<>>
NoField == [key |-> "none", shape |-> <<0, 0>>]
NoFigure == [title |-> <<>>]

\* the state after HeatMapGenerator.__init__
Constructed(run) ==
    /\ layout = run.image
    /\ image_width = run.image.cols
    /\ image_height = run.image.rows - 1
    /\ data = run.data
    /\ ignore_ssids = run.ignore

Init ==
    /\ \E run \in Runs : Constructed(run)
    /\ a = EmptyDict
    /\ i = 1
    /\ pc = "rows"
    /\ err = "none"
    /\ channels = EmptyDict
    /\ stdout = <<>>
    /\ num_x = 0 /\ num_y = 0 /\ gx = NoGrid /\ gy = NoGrid
    /\ key_idx = 1
    /\ z = NoField
    /\ figure = NoFigure
    /\ files = EmptyDict

Running == err = "none" /\ pc # "done"

Terminated == ~Running

\* lines 150-160: the next record is appended; past the last one the loop
\* over the corners starts
LoadRow ==
    /\ Running /\ pc = "rows"
    /\ IF i > Len(data)
       THEN /\ pc' = "pad"
            /\ i' = 1
            /\ UNCHANGED <<a, err>>
       ELSE LET r == AppendRow(a, data[i])
            IN /\ a' = r.a
               /\ err' = r.err
               /\ i' = IF r.err = "none" THEN i + 1 ELSE i
               /\ pc' = pc
    /\ UNCHANGED <<layout, image_width, image_height, data, ignore_ssids,
                   channels, stdout, num_x, num_y, gx, gy, key_idx, z,
                   figure, files>>

\* lines 161-170: the next corner is appended
PadCorner ==
    /\ Running /\ pc = "pad"
    /\ LET r == PadAppend(a, Corners(image_width, image_height)[i])
       IN /\ a' = r.a
          /\ err' = r.err
          /\ IF r.err = "none" /\ i = 4
             THEN pc' = "channels" /\ i' = 1
             ELSE pc' = pc /\ i' = IF r.err = "none" THEN i + 1 ELSE i
    /\ UNCHANGED <<layout, image_width, image_height, data, ignore_ssids,
                   channels, stdout, num_x, num_y, gx, gy, key_idx, z,
                   figure, files>>

\* line 171: _plot_channels() computes the means, prints them and raises
PlotChannels ==
    /\ Running /\ pc = "channels"
    /\ channels' = ChannelMeans(data, ignore_ssids)
    /\ stdout' = Append(stdout, channels')
    /\ err' = "NotImplementedError"
    /\ UNCHANGED <<layout, image_width, image_height, data, ignore_ssids,
                   a, i, pc, num_x, num_y, gx, gy, key_idx, z, figure, files>>

Next == LoadRow \/ PadCorner \/ PlotChannels

Spec == Init /\ [][Next]_vars

---------------------------------------------------------------------------
(* generate(), lines 172-188, and _plot(), lines 219-256.                  *)
(*                                                                         *)
(* Line 171 raises in every run, so these lines are entered only by a      *)
(* caller for whom _plot_channels returns.  PlotSpec and GridSpec start    *)
(* at line 172, from every table a that lines 149-170 build.               *)

\* lines 149-170 as one function: the records from the n-th on, then the
\* corners from the c-th on (no record of the datasets it is used on lacks
\* a metric)
RECURSIVE Aggregate(_, _, _, _, _)
Aggregate(d, rows, n, corners, c) ==
    IF n <= Len(rows)
    THEN Aggregate(AppendRow(d, rows[n]).a, rows, n + 1, corners, c)
    ELSE IF c <= Len(corners)
         THEN Aggregate(PadAppend(d, corners[c]).a, rows, n, corners, c + 1)
         ELSE d

\* np.linspace(start, stop, num): num evenly spaced values, both ends
\* included when num >= 2, start alone when num = 1
Linspace(start, stop, num) ==
    [j \in 1..num |->
        IF num = 1 THEN Rat(start, 1)
        ELSE Rat(start * (num - 1) + (j - 1) * (stop - start), num - 1)]

\* np.meshgrid(x, y) flattened: row-major, one row per value of y
MeshX(x, y) == [n \in 1..(Len(x) * Len(y)) |-> x[((n - 1) % Len(x)) + 1]]

MeshY(x, y) == [n \in 1..(Len(x) * Len(y)) |-> y[((n - 1) \div Len(x)) + 1]]

\* line 172: int(self._image_width / 4)
NumX(w) == w \div GridStep

\* line 173: int(num_x / (self._image_width / self._image_height)); the
\* double-precision result is the exact quotient's floor for every width
\* and height below 36 x 28
NumY(nx, w, h) == (nx * h) \div w

\* lines 172-177; the division of line 173 by a zero image_height raises
GridSetup ==
    /\ Running /\ pc = "grid"
    /\ IF image_height = 0
       THEN /\ err' = "ZeroDivisionError"
            /\ num_x' = NumX(image_width)
            /\ UNCHANGED <<pc, num_y, gx, gy>>
       ELSE LET nx == NumX(image_width)
                ny == NumY(nx, image_width, image_height)
                x == Linspace(0, image_width, nx)
                y == Linspace(0, image_height, ny)
            IN /\ num_x' = nx
               /\ num_y' = ny
               /\ gx' = MeshX(x, y)
               /\ gy' = MeshY(x, y)
               /\ pc' = "interp"
               /\ err' = err
    /\ UNCHANGED <<layout, image_width, image_height, data, ignore_ssids,
                   a, i, channels, stdout, key_idx, z, figure, files>>

Duplicates(xs, ys) ==
    \E m \in DOMAIN xs, n \in DOMAIN xs :
        m # n /\ xs[m] = xs[n] /\ ys[m] = ys[n]

\* scipy's Rbf(x, y, d, function='linear'): arrays of unequal length are
\* refused; the system of coincident points is singular, which the solver
\* reports or not (the result is then no interpolant)
RbfOutcomes(xs, ys, ds) ==
    IF Len(xs) # Len(ds) \/ Len(ys) # Len(ds) THEN {"ValueError"}
    ELSE IF Duplicates(xs, ys) THEN {"LinAlgError", "ok"}
    ELSE {"ok"}

\* the Rbf call with its exception swallowed: the pass goes on to render
AfterRbfSwallowed(outcome, field) ==
    [pc |-> "render", err |-> "none",
     z |-> IF outcome = "ok" THEN field ELSE NoField]

\* what follows the Rbf call of lines 225-229: the field and the rendering,
\* or the exception leaving _plot and generate
AfterRbf(outcome, field) ==
    IF outcome = "ok" THEN [pc |-> "render", err |-> "none", z |-> field]
    ELSE [pc |-> "interp", err |-> outcome, z |-> NoField]

\* matplotlib.colors.Normalize(vmin, vmax, clip=True) applied to v: equal
\* vmin and vmax map every value to 0
Normalize(v, vmin, vmax) ==
    IF vmin = vmax THEN <<0, 1>>
    ELSE LET c == IF v < vmin THEN vmin ELSE IF v > vmax THEN vmax ELSE v
         IN Rat(c - vmin, vmax - vmin)

\* mapper.to_rgba(v): the palette's colour at the normalised value
ToRgba(v, vmin, vmax) == [cmap |-> "RdYlBu_r", at |-> Normalize(v, vmin, vmax)]

\* lines 246-251: the markers pp.plot draws
Markers(d, key) ==
    [idx \in 1..Len(d["x"]) |->
        [x |-> d["x"][idx], y |-> d["y"][idx],
         face |-> ToRgba(d[key][idx], SeqMin(d[key]), SeqMax(d[key]))]]

\* line 253
Fname(key) == <<key, "_", Title, ".png">>

CurKey == MetricCatalog[key_idx]

\* lines 220-229: the title, the Rbf fit and its evaluation on the grid
Interpolate ==
    /\ Running /\ pc = "interp"
    /\ a' = DictTouch(a, CurKey)
    /\ \E o \in RbfOutcomes(a["x"], a["y"], DictGet(a, CurKey)) :
         LET r == AfterRbf(o, [key |-> CurKey, shape |-> <<num_y, num_x>>])
         IN /\ pc' = r.pc
            /\ err' = r.err
            /\ z' = r.z
    /\ figure' = [title |-> <<Title, " - ", Ptitle[CurKey]>>,
                  layers |-> <<>>, markers |-> <<>>]
    /\ UNCHANGED <<layout, image_width, image_height, data, ignore_ssids,
                   i, channels, stdout, num_x, num_y, gx, gy, key_idx, files>>

\* lines 231-252: the overlay, the colour bar, the background, the markers
Render ==
    /\ Running /\ pc = "render"
    /\ figure' = [figure EXCEPT
           !.layers = <<[field |-> z, alpha |-> <<1, 2>>,
                         extent |-> <<0, image_width, image_height, 0>>],
                        "colorbar", layout>>,
           !.markers = Markers(a, CurKey)]
    /\ pc' = "save"
    /\ UNCHANGED <<layout, image_width, image_height, data, ignore_ssids,
                   a, i, err, channels, stdout, num_x, num_y, gx, gy,
                   key_idx, z, files>>

\* lines 253-256 and the next turn of the loop of line 178
Save ==
    /\ Running /\ pc = "save"
    /\ files' = (Fname(CurKey) :> figure) @@ files
    /\ figure' = NoFigure
    /\ z' = NoField
    /\ IF key_idx = Len(MetricCatalog)
       THEN pc' = "done" /\ key_idx' = key_idx
       ELSE pc' = "interp" /\ key_idx' = key_idx + 1
    /\ UNCHANGED <<layout, image_width, image_height, data, ignore_ssids,
                   a, i, err, channels, stdout, num_x, num_y, gx, gy>>

\* the state at line 172 of a run over image img and the records rows
AtGrid(img, rows) ==
    /\ Constructed([image |-> img, data |-> rows, ignore |-> {}])
    /\ a = Aggregate(EmptyDict, rows, 1,
                     Corners(image_width, image_height), 1)
    /\ i = 1
    /\ pc = "grid"
    /\ err = "none"
    /\ channels = ChannelMeans(rows, {})
    /\ stdout = <<channels>>
    /\ num_x = 0 /\ num_y = 0 /\ gx = NoGrid /\ gy = NoGrid
    /\ key_idx = 1
    /\ z = NoField
    /\ figure = NoFigure
    /\ files = EmptyDict

PlotInit == \E img \in Images, rows \in MetricDatasets : AtGrid(img, rows)

PlotNext == GridSetup \/ Interpolate \/ Render \/ Save

PlotSpec == PlotInit /\ [][PlotNext]_vars

GridInit ==
    \E img \in GridImages :
        AtGrid(img, <<RecordOf(1, 1, ResultOf(1, {}), <<>>)>>)

GridNext == GridSetup

GridSpec == GridInit /\ [][GridNext]_vars

---------------------------------------------------------------------------
(* The claims.                                                             *)

AllFiles == {Fname(k) : k \in Metrics}

AllComplete == \A n \in DOMAIN data : Complete(data[n])

\* lines 150-170 are behind the run
Aggregated == pc \notin {"rows", "pad"}

\* the value record n of the dataset carries for metric k
Measured(n, k) == data[n].result[SourceField[k]]

\* C1: a run over a non-empty dataset of complete records ends with one
\* image written for each of the six metrics; the channel step does not
\* keep any of them from being written.
C1_EveryMetricImageWritten ==
    (Terminated /\ data # <<>> /\ AllComplete) => DOMAIN files = AllFiles

\* The table after aggregation of n >= 1 records, for corner height h: n + 4
\* entries per sequence, the records in dataset order, then the corners
\* (0,0), (0,h), (w,0), (w,h) with every metric at its minimum over the
\* records.
PaddedTable(w, h) ==
    LET n == Len(data)
    IN /\ \A k \in {"x", "y"} \cup Metrics :
             k \in DOMAIN a /\ Len(a[k]) = n + 4
       /\ \A j \in 1..n :
             /\ a["x"][j] = data[j].x
             /\ a["y"][j] = data[j].y
             /\ \A k \in Metrics : a[k][j] = Measured(j, k)
       /\ \A c \in 1..4 :
             /\ <<a["x"][n + c], a["y"][n + c]>> =
                    <<<<0, 0>>, <<0, h>>, <<w, 0>>, <<w, h>>>>[c]
             /\ \A k \in Metrics :
                    /\ \E j \in 1..n : a[k][n + c] = Measured(j, k)
                    /\ \A j \in 1..n : a[k][n + c] <= Measured(j, k)

\* C2: after aggregation of n >= 1 records the sequences hold the n records
\* in order and then four points at the corners of the image, (0,0),
\* (0,height), (width,0), (width,height) for the image's pixel width and
\* height, each metric at its minimum over the records.
C2_PaddingAtImageCorners ==
    (Aggregated /\ Len(data) >= 1) => PaddedTable(layout.cols, layout.rows)

\* The same table with the corners at the height __init__ stores, one less
\* than the image's pixel rows.
PaddingAtStoredHeight ==
    (Aggregated /\ Len(data) >= 1) => PaddedTable(layout.cols, layout.rows - 1)

PaddingReached ==
    /\ Aggregated /\ Len(data) = 2
    /\ \E k \in Metrics : Measured(1, k) # Measured(2, k)

\* the scan observations of the dataset: <<record, place in its iwscan>>
Observations ==
    UNION {{<<n, m>> : m \in DOMAIN data[n].iwscan} : n \in DOMAIN data}

ScanAt(o) == data[o[1]].iwscan[o[2]]

\* the observations at frequency f (Hz) whose SSID is not excluded
CountedAt(f) ==
    {o \in Observations :
        ScanAt(o).Frequency = f /\ ScanAt(o).ESSID \notin ignore_ssids}

RECURSIVE QualitySum(_)
QualitySum(S) ==
    IF S = {} THEN 0
    ELSE LET o == CHOOSE e \in S : TRUE
         IN ScanAt(o).quality + QualitySum(S \ {o})

\* the rational key is the frequency f in MHz
IsMHz(key, f) == key[1] * HzPerMHz = key[2] * f

\* C3: the channel aggregate has an entry for a frequency exactly when a
\* non-excluded observation was seen at it, and the entry is the arithmetic
\* mean of the qualities of all non-excluded observations at that frequency
\* over all records.
C3_ChannelMeans ==
    (pc = "channels" /\ err # "none") =>
        /\ \A f \in Frequencies :
              CountedAt(f) # {} =>
                  \E key \in DOMAIN channels :
                      /\ IsMHz(key, f)
                      /\ channels[key][1] * Cardinality(CountedAt(f)) =
                             channels[key][2] * QualitySum(CountedAt(f))
        /\ \A key \in DOMAIN channels :
              \E f \in Frequencies : IsMHz(key, f) /\ CountedAt(f) # {}
        /\ stdout = <<channels>>

\* two records with one observation each at 902 MHz, qualities 50 and 70,
\* one of them excluded by its SSID: the entry is the other's quality
C3_Witness ==
    /\ pc = "channels" /\ err # "none"
    /\ Len(data) = 2
    /\ Len(data[1].iwscan) = 1 /\ Len(data[2].iwscan) = 1
    /\ data[1].iwscan[1] =
           [ESSID |-> "home", Frequency |-> 902000000, quality |-> 50]
    /\ data[2].iwscan[1] =
           [ESSID |-> "guest", Frequency |-> 902000000, quality |-> 70]
    /\ ignore_ssids = {"home"}
    /\ channels = (<<902, 1>> :> <<70, 1>>)

\* C5: a run over an empty dataset ends with an error raised by the
\* aggregation or padding step, before the channel step has run, and with
\* no image written.
C5_EmptyDatasetFailsInAggregation ==
    (Terminated /\ data = <<>>) =>
        /\ err # "none" /\ pc \in {"rows", "pad"}
        /\ stdout = <<>>
        /\ DOMAIN files = {}

FirstIncomplete ==
    CHOOSE n \in DOMAIN data :
        ~Complete(data[n]) /\ \A m \in 1..(n - 1) : Complete(data[m])

\* C8: when a record lacks one of the six metrics the run never leaves the
\* aggregation loop: it ends there with KeyError at the first such record,
\* the channel step has not run and no image is written.
C8_MissingMetricFailsInAggregation ==
    ~AllComplete =>
        /\ pc = "rows"
        /\ i <= FirstIncomplete
        /\ err \in {"none", "KeyError"}
        /\ (Terminated => err = "KeyError" /\ i = FirstIncomplete)
        /\ stdout = <<>>
        /\ DOMAIN files = {}

C8_Witness ==
    /\ err = "KeyError" /\ pc = "rows" /\ i = 2
    /\ Complete(data[1])
    /\ "rssi" \in DOMAIN a /\ "jitter" \in DOMAIN a
    /\ Len(a["rssi"]) = 2 /\ Len(a["jitter"]) = 1

\* C10: from the end of aggregation on, the six metric sequences are as long
\* as the x and y sequences and entry j of each belongs to record j.
C10_SequencesAligned ==
    Aggregated =>
        /\ Len(DictGet(a, "y")) = Len(DictGet(a, "x"))
        /\ \A k \in Metrics :
              /\ Len(DictGet(a, k)) = Len(DictGet(a, "x"))
              /\ \A j \in DOMAIN data : a[k][j] = Measured(j, k)

\* the points of the table are pairwise distinct: the Rbf fit succeeds
Distinct == ~Duplicates(a["x"], a["y"])

\* C4: the markers of a rendering pass are the records of the dataset, one
\* each, at the record's coordinates and coloured from its own value; the
\* corner points get none.  (Stated for the passes over pairwise distinct
\* points.)
C4_MarkersAreRealPoints ==
    (pc = "save" /\ Distinct) =>
        figure.markers =
            [n \in 1..Len(data) |->
                [x |-> data[n].x, y |-> data[n].y,
                 face |-> ToRgba(Measured(n, CurKey),
                                 SeqMin(a[CurKey]), SeqMax(a[CurKey]))]]

\* C6: in a pass whose metric sequence is all one value, every marker has
\* the palette's colour at the midpoint intensity 1/2.  (Stated for the
\* passes over pairwise distinct points.)
C6_DegenerateMapsToMidpoint ==
    (pc = "save" /\ Distinct /\ Cardinality(Range(a[CurKey])) = 1) =>
        \A n \in DOMAIN figure.markers : figure.markers[n].face.at = <<1, 2>>

\* C7: for an image of W x H pixels the grid has W / 4 columns and
\* num_x / (W / H) rows, is evaluated at num_x * num_y coordinate pairs that
\* span 0..W and 0..H inclusive, and the field has shape (num_y, num_x).
C7_GridFromImageSize ==
    LET W == layout.cols
        H == layout.rows
    IN (pc # "grid" \/ err # "none") =>
          /\ err = "none"
          /\ num_x = W \div 4
          /\ num_y = (num_x * H) \div W
          /\ Len(gx) = num_x * num_y /\ Len(gy) = num_x * num_y
          /\ num_x * num_y > 0 =>
                /\ gx[1] = <<0, 1>> /\ gx[Len(gx)] = <<W, 1>>
                /\ gy[1] = <<0, 1>> /\ gy[Len(gy)] = <<H, 1>>

\* C9: a pass writes its image only at its end, after its own interpolation
\* and rendering; a pass that fails at interpolation writes nothing, and the
\* images written before it stay as they were written.
C9_WrittenOnlyAfterSuccess ==
    [][/\ \A f \in DOMAIN files : f \in DOMAIN files' /\ files'[f] = files[f]
       /\ files' # files =>
             /\ pc = "save" /\ err = "none"
             /\ z = [key |-> CurKey, shape |-> <<num_y, num_x>>]
             /\ figure.layers[1].field = z
             /\ figure.markers # <<>>
             /\ DOMAIN files' = DOMAIN files \cup {Fname(CurKey)}
             /\ files'[Fname(CurKey)] = figure
       /\ (pc = "interp" /\ pc' = "render") =>
             /\ err' = "none"
             /\ z' = [key |-> CurKey, shape |-> <<num_y, num_x>>]
       /\ (pc = "interp" /\ err' # "none") =>
             /\ files' = files
             /\ Fname(CurKey) \notin DOMAIN files']_vars

\* the second pass failed at interpolation after the first wrote its image
C9_Witness ==
    /\ pc = "interp" /\ err = "LinAlgError" /\ key_idx = 2
    /\ DOMAIN files = {Fname("rssi")}
    /\ files[Fname("rssi")].markers # <<>>

===========================================================================
